---- MODULE Spec2Model ----
(***************************************************************************)
(* Model of the action-priority-list checker, parser/shared/metrics/apl.ts *)
(*                                                                         *)
(* JavaScript values are modelled as records so that values of different   *)
(* kinds can be compared: a boolean b is Bool(b), the absent value is      *)
(* Undefined, an object is a TLA+ function whose DOMAIN is its key set.    *)
(***************************************************************************)
EXTENDS Integers, Sequences, FiniteSets, TLC

\* Longest event stream that is generated.
MaxEvents == 3

\* ---------------------------------------------------------------- values

Undefined == [undefined |-> TRUE]

Bool(b) == [bool |-> b]

\* JavaScript truthiness of the values a condition's validate can return.
Truthy(v) == v = Bool(TRUE)

\* The empty object literal {}.
EmptyObject == [k \in {} |-> Undefined]

\* obj[key] of a JavaScript object: the absent value when key is not a key.
Get(obj, key) == IF key \in DOMAIN obj THEN obj[key] ELSE Undefined

\* { ...obj, [key]: value }
Put(obj, key, value) ==
    [k \in DOMAIN obj \cup {key} |-> IF k = key THEN value ELSE obj[k]]

\* ---------------------------------------------------------------- inputs

\* Spells: the rules of the lists below govern SpellA and SpellB; SpellX and
\* SpellY are buffs, and a cast of them is a cast of an ungoverned spell.
SpellA == [id |-> 1]
SpellB == [id |-> 2]
SpellX == [id |-> 3]
SpellY == [id |-> 4]

Actors == {1, 2}

CastEvent(g, src) ==
    [type |-> "cast", ability |-> [guid |-> g], sourceID |-> src,
     targetID |-> src, isAvailable |-> FALSE]

BuffEvent(t, g, tgt) ==
    [type |-> t, ability |-> [guid |-> g], sourceID |-> 1,
     targetID |-> tgt, isAvailable |-> FALSE]

UpdateSpellUsableEvent(g, avail) ==
    [type |-> "updatespellusable", ability |-> [guid |-> g], sourceID |-> 1,
     targetID |-> 1, isAvailable |-> avail]

OtherEvent ==
    [type |-> "damage", ability |-> [guid |-> 1], sourceID |-> 1,
     targetID |-> 2, isAvailable |-> FALSE]

\* The event alphabet (AnyEvent): the streams are all sequences over it.
Events ==
    {CastEvent(g, 1) : g \in {1, 2, 3}}
        \cup {CastEvent(g, 2) : g \in {1, 2}}
        \cup {BuffEvent(t, 3, tgt) : t \in {"applybuff", "removebuff"}, tgt \in {1, 2}}
        \cup {BuffEvent("applybuff", 4, 1), BuffEvent("removebuff", 4, 1)}
        \cup {UpdateSpellUsableEvent(g, b) : g \in {1, 2}, b \in BOOLEAN}
        \cup {OtherEvent}

\* ------------------------------------------------------------ conditions

\* buffPresent(spell, target): the closure keeps spell; target is only part
\* of the key.
buffPresent(sp, target) ==
    [key |-> <<"buffPresent", sp.id, target>>, kind |-> "buffPresent", spell |-> sp]

\* A caller-supplied condition "sp has been cast before": its update is
\* triggered by cast events, its state is a boolean starting false.
spellWasCast(sp) ==
    [key |-> <<"spellWasCast", sp.id>>, kind |-> "spellWasCast", spell |-> sp]

\* The same condition registered under the key of buffPresent(SpellX, 1).
collidingCondition ==
    [key |-> <<"buffPresent", 3, 1>>, kind |-> "spellWasCast", spell |-> SpellB]

\* Condition.init
init(cnd) == Bool(FALSE)

\* A buffPresent update that forgets to compare the ability id.
buffPresentUpdateAnyId(cnd, state, event) ==
    IF event.type = "applybuff"
    THEN Bool(TRUE)
    ELSE IF event.type = "removebuff"
         THEN Bool(FALSE)
         ELSE state

\* A buffPresent update that also compares the event's target with the
\* target the condition was built for.
buffPresentUpdateTargeted(cnd, state, event) ==
    IF /\ event.type = "applybuff" /\ event.ability.guid = cnd.spell.id
       /\ event.targetID = cnd.key[3]
    THEN Bool(TRUE)
    ELSE IF /\ event.type = "removebuff" /\ event.ability.guid = cnd.spell.id
            /\ event.targetID = cnd.key[3]
         THEN Bool(FALSE)
         ELSE state

buffPresentUpdate(cnd, state, event) ==
    IF event.type = "applybuff" /\ event.ability.guid = cnd.spell.id
    THEN Bool(TRUE)
    ELSE IF event.type = "removebuff" /\ event.ability.guid = cnd.spell.id
         THEN Bool(FALSE)
         ELSE state

spellWasCastUpdate(cnd, state, event) ==
    IF event.type = "cast" /\ event.ability.guid = cnd.spell.id
    THEN Bool(TRUE)
    ELSE state

\* Condition.update
update(cnd, state, event) ==
    IF cnd.kind = "buffPresent"
    THEN buffPresentUpdate(cnd, state, event)
    ELSE spellWasCastUpdate(cnd, state, event)

\* Condition.validate: both kinds return the state they are given.
validate(cnd, state, event) == state

\* ------------------------------------------------------------------ APLs

ConditionalRule(sp, cnd) == [spell |-> sp, condition |-> cnd]

\* The lists the checker is run on.  A list without a conditions field is an
\* Apl whose optional conditions member is absent.
Apls ==
    { [rules |-> <<SpellA>>],
      [rules |-> <<SpellA, SpellB>>],
      [rules |-> <<ConditionalRule(SpellA, buffPresent(SpellX, 1)), SpellB>>,
       conditions |-> <<buffPresent(SpellX, 1)>>],
      [rules |-> <<ConditionalRule(SpellA, buffPresent(SpellX, 1))>>,
       conditions |-> <<buffPresent(SpellX, 1)>>],
      [rules |-> <<ConditionalRule(SpellB, spellWasCast(SpellB)), SpellA>>,
       conditions |-> <<spellWasCast(SpellB)>>],
      [rules |-> <<ConditionalRule(SpellA, buffPresent(SpellX, 1))>>,
       conditions |-> <<>>],
      [rules |-> <<ConditionalRule(SpellA, buffPresent(SpellX, 1)),
                   ConditionalRule(SpellB, buffPresent(SpellX, 2))>>,
       conditions |-> <<buffPresent(SpellX, 1), buffPresent(SpellX, 2)>>],
      [rules |-> <<ConditionalRule(SpellA, buffPresent(SpellX, 1)),
                   ConditionalRule(SpellB, collidingCondition)>>,
       conditions |-> <<buffPresent(SpellX, 1), collidingCondition>>] }

\* ------------------------------------------------------------ the checker

RECURSIVE initStateFrom(_, _, _)
initStateFrom(cnds, i, state) ==
    IF i > Len(cnds) THEN state
    ELSE initStateFrom(cnds, i + 1, Put(state, cnds[i].key, init(cnds[i])))

initState(a) ==
    IF "conditions" \in DOMAIN a
    THEN initStateFrom(a.conditions, 1, EmptyObject)
    ELSE EmptyObject

RECURSIVE updateStateFrom(_, _, _, _, _)

\* A reduce that hands each condition the value from the object being built
\* instead of the one from oldState.
RECURSIVE updateStateFromAccumulator(_, _, _, _, _)
updateStateFromAccumulator(cnds, i, state, oldState, event) ==
    IF i > Len(cnds) THEN state
    ELSE updateStateFromAccumulator(cnds, i + 1,
             Put(state, cnds[i].key,
                 update(cnds[i], Get(state, cnds[i].key), event)),
             oldState, event)

\* A reduce in which the first condition declared under a key keeps the key.
RECURSIVE updateStateFromFirstWins(_, _, _, _, _)
updateStateFromFirstWins(cnds, i, state, oldState, event) ==
    IF i > Len(cnds) THEN state
    ELSE updateStateFromFirstWins(cnds, i + 1,
             IF cnds[i].key \in DOMAIN state
             THEN state
             ELSE Put(state, cnds[i].key,
                      update(cnds[i], Get(oldState, cnds[i].key), event)),
             oldState, event)

updateStateFrom(cnds, i, state, oldState, event) ==
    IF i > Len(cnds) THEN state
    ELSE updateStateFrom(cnds, i + 1,
             Put(state, cnds[i].key,
                 update(cnds[i], Get(oldState, cnds[i].key), event)),
             oldState, event)

updateState(a, oldState, event) ==
    IF "conditions" \in DOMAIN a
    THEN updateStateFrom(a.conditions, 1, EmptyObject, oldState, event)
    ELSE EmptyObject

spell(rule) == IF "spell" \in DOMAIN rule THEN rule.spell ELSE rule

\* A ruleApplies that leaves the availability check out.
ruleAppliesIgnoringAvailability(rule, result, event) ==
    \/ ~("condition" \in DOMAIN rule)
    \/ Truthy(validate(rule.condition,
                       Get(result.conditionState, rule.condition.key), event))

\* A ruleApplies that rejects a rule only when validate returns false, so
\* that an absent condition state passes.
ruleAppliesUnlessFalse(rule, result, event) ==
    /\ \/ Get(result.abilityState, spell(rule).id) = Undefined
       \/ Get(result.abilityState, spell(rule).id).isAvailable
    /\ \/ ~("condition" \in DOMAIN rule)
       \/ validate(rule.condition,
                   Get(result.conditionState, rule.condition.key), event) # Bool(FALSE)

\* A ruleApplies that looks up the availability of the spell cast instead of
\* the spell the rule governs.
ruleAppliesCastAvailability(rule, result, event) ==
    /\ \/ Get(result.abilityState, event.ability.guid) = Undefined
       \/ Get(result.abilityState, event.ability.guid).isAvailable
    /\ \/ ~("condition" \in DOMAIN rule)
       \/ Truthy(validate(rule.condition,
                          Get(result.conditionState, rule.condition.key), event))

ruleApplies(rule, result, event) ==
    /\ \/ Get(result.abilityState, spell(rule).id) = Undefined
       \/ Get(result.abilityState, spell(rule).id).isAvailable
    /\ \/ ~("condition" \in DOMAIN rule)
       \/ Truthy(validate(rule.condition,
                          Get(result.conditionState, rule.condition.key), event))

RECURSIVE applicableRuleFrom(_, _, _, _)

\* A scan that keeps the last applicable rule instead of the first.
RECURSIVE applicableRuleLast(_, _, _, _)
applicableRuleLast(a, i, result, event) ==
    IF i > Len(a.rules) THEN Undefined
    ELSE LET later == applicableRuleLast(a, i + 1, result, event) IN
         IF later # Undefined THEN later
         ELSE IF ruleApplies(a.rules[i], result, event) THEN a.rules[i]
              ELSE Undefined

applicableRuleFrom(a, i, result, event) ==
    IF i > Len(a.rules) THEN Undefined
    ELSE IF ruleApplies(a.rules[i], result, event) THEN a.rules[i]
         ELSE applicableRuleFrom(a, i + 1, result, event)

applicableRule(a, result, event) == applicableRuleFrom(a, 1, result, event)

\* An updateAbilities that keeps the first snapshot stored for a spell.
updateAbilitiesKeepFirst(state, event) ==
    IF event.type = "updatespellusable" /\ ~(event.ability.guid \in DOMAIN state)
    THEN Put(state, event.ability.guid, event)
    ELSE state

updateAbilities(state, event) ==
    IF event.type = "updatespellusable"
    THEN Put(state, event.ability.guid, event)
    ELSE state

applicableSpells(a) == {spell(a.rules[i]).id : i \in DOMAIN a.rules}

\* A guard that takes every cast as an attempt, governed or not.
isAttemptAnyCast(a, player, event) == event.type = "cast"

\* Whether the reducer takes event as an attempt to classify.
isAttempt(a, player, event) ==
    event.type = "cast" /\ event.ability.guid \in applicableSpells(a)

\* A classification that counts every cast with an applicable rule as a
\* success.
classifyAlwaysSuccess(a, player, result, event) ==
    IF isAttempt(a, player, event)
    THEN LET rule == applicableRule(a, result, event) IN
         IF rule # Undefined
         THEN [result EXCEPT !.successes = Append(@, rule)]
         ELSE result
    ELSE result

\* A classification that reports a cast without applicable rule as a
\* violation of its own.
classifyNoneAsViolation(a, player, result, event) ==
    IF isAttempt(a, player, event)
    THEN LET rule == applicableRule(a, result, event) IN
         IF rule # Undefined
         THEN IF spell(rule).id = event.ability.guid
              THEN [result EXCEPT !.successes = Append(@, rule)]
              ELSE [result EXCEPT !.violations =
                        Append(@, [rule |-> rule,
                                   expectedCast |-> spell(rule),
                                   actualCast |-> event.ability])]
         ELSE [result EXCEPT !.violations =
                   Append(@, [rule |-> Undefined,
                              expectedCast |-> Undefined,
                              actualCast |-> event.ability])]
    ELSE result

\* A classification that puts the new record at the front of its list.
classifyPrepend(a, player, result, event) ==
    IF isAttempt(a, player, event)
    THEN LET rule == applicableRule(a, result, event) IN
         IF rule # Undefined
         THEN IF spell(rule).id = event.ability.guid
              THEN [result EXCEPT !.successes = <<rule>> \o @]
              ELSE [result EXCEPT !.violations =
                        <<[rule |-> rule,
                           expectedCast |-> spell(rule),
                           actualCast |-> event.ability]>> \o @]
         ELSE result
    ELSE result

\* A classification whose comparison of the two spells never succeeds, so
\* that every classified cast is reported as a violation.
classifyNeverEqual(a, player, result, event) ==
    IF isAttempt(a, player, event)
    THEN LET rule == applicableRule(a, result, event) IN
         IF rule # Undefined
         THEN [result EXCEPT !.violations =
                   Append(@, [rule |-> rule,
                              expectedCast |-> spell(rule),
                              actualCast |-> event.ability])]
         ELSE result
    ELSE result

\* The first half of the reducer: the success or violation pushed for event.
classify(a, player, result, event) ==
    IF isAttempt(a, player, event)
    THEN LET rule == applicableRule(a, result, event) IN
         IF rule # Undefined
         THEN IF spell(rule).id = event.ability.guid
              THEN [result EXCEPT !.successes = Append(@, rule)]
              ELSE [result EXCEPT !.violations =
                        Append(@, [rule |-> rule,
                                   expectedCast |-> spell(rule),
                                   actualCast |-> event.ability])]
         ELSE result
    ELSE result

\* A reducer that advances both states before it classifies the event.
reducerUpdateFirst(a, player, result, event) ==
    classify(a, player,
             [result EXCEPT
                 !.abilityState = updateAbilities(result.abilityState, event),
                 !.conditionState = updateState(a, result.conditionState, event)],
             event)

\* A reducer that advances the states only for events it did not classify.
reducerAdvanceUnlessAttempt(a, player, result, event) ==
    IF isAttempt(a, player, event)
    THEN classify(a, player, result, event)
    ELSE [result EXCEPT
             !.abilityState = updateAbilities(result.abilityState, event),
             !.conditionState = updateState(a, result.conditionState, event)]

\* The reducer: classify against result, then advance both states from result.
reducer(a, player, result, event) ==
    [classify(a, player, result, event) EXCEPT
        !.abilityState = updateAbilities(result.abilityState, event),
        !.conditionState = updateState(a, result.conditionState, event)]

\* The initial accumulator of the fold.
initialCheckState(a) ==
    [successes |-> <<>>, violations |-> <<>>,
     abilityState |-> EmptyObject, conditionState |-> initState(a)]

\* ------------------------------------------------------------------ state

VARIABLES
    apl,        \* the Apl the metric was built for
    playerId,   \* info.playerId
    events,     \* the event list handed to the metric, as far as generated
    pos,        \* number of events the running fold has consumed
    result,     \* the accumulator of the running fold (CheckState)
    phase,      \* "running" while the fold runs, "done" once it returned
    run,        \* 1 for the first call of the metric, 2 for the second
    returned,   \* the values the finished calls returned, in call order
    last        \* the accumulator before the latest reducer step, else Undefined

vars == <<apl, playerId, events, pos, result, phase, run, returned, last>>

\* A call that starts from the availability state the previous call left.
StartRunShared(a) ==
    result' = [initialCheckState(a) EXCEPT !.abilityState = result.abilityState]

\* The accumulator a call of the metric starts from.
StartRun(a) == result' = initialCheckState(a)

Init ==
    /\ apl \in Apls
    /\ playerId \in Actors
    /\ events = <<>>
    /\ pos = 0
    /\ result = initialCheckState(apl)
    /\ phase = "running"
    /\ run = 1
    /\ returned = <<>>
    /\ last = Undefined

\* One step of events.reduce.  In the first call the next event of the list
\* is any event (the list is generated as it is read); the second call reads
\* the list of the first.
ProcessEvent ==
    /\ phase = "running"
    /\ \E event \in Events :
        /\ IF pos < Len(events)
           THEN event = events[pos + 1] /\ events' = events
           ELSE run = 1 /\ Len(events) < MaxEvents /\ events' = Append(events, event)
        /\ result' = reducer(apl, playerId, result, event)
    /\ last' = result
    /\ pos' = pos + 1
    /\ UNCHANGED <<apl, playerId, phase, run, returned>>

\* The end of the list: reduce returns the accumulator.
Finish ==
    /\ phase = "running"
    /\ pos = Len(events)
    /\ phase' = "done"
    /\ returned' = Append(returned, result)
    /\ last' = Undefined
    /\ UNCHANGED <<apl, playerId, events, pos, result, run>>

\* The metric is called again with the same events and info.
Rerun ==
    /\ phase = "done"
    /\ run = 1
    /\ run' = 2
    /\ phase' = "running"
    /\ pos' = 0
    /\ StartRun(apl)
    /\ last' = Undefined
    /\ UNCHANGED <<apl, playerId, events, returned>>

\* One call of the metric.
Next == ProcessEvent \/ Finish

Spec == Init /\ [][Next]_vars

\* The metric called twice on the same inputs.
NextTwice == ProcessEvent \/ Finish \/ Rerun

SpecTwice == Init /\ [][NextTwice]_vars

\* ------------------------------------------------- history and vocabulary

\* A reducer step has just been taken: last holds the accumulator it read.
Stepped == last # Undefined

\* The event the latest reducer step consumed.
lastEvent == events[pos]

\* The latest step consumed a cast of a spell some rule governs.
GovernedCast ==
    /\ Stepped
    /\ lastEvent.type = "cast"
    /\ \E i \in DOMAIN apl.rules : spell(apl.rules[i]).id = lastEvent.ability.guid

IsPrefix(s, t) == Len(s) <= Len(t) /\ \A i \in 1..Len(s) : s[i] = t[i]

\* The condition state and availability state obtained from the first n
\* events of the stream alone.
RECURSIVE conditionStateAfter(_)
conditionStateAfter(n) ==
    IF n = 0 THEN initState(apl)
    ELSE updateState(apl, conditionStateAfter(n - 1), events[n])

RECURSIVE abilityStateAfter(_)
abilityStateAfter(n) ==
    IF n = 0 THEN EmptyObject
    ELSE updateAbilities(abilityStateAfter(n - 1), events[n])

\* Index of the last availability update for spell id among the first n
\* events, 0 when there is none.
RECURSIVE lastUsableUpdate(_, _)
lastUsableUpdate(id, n) ==
    IF n = 0 THEN 0
    ELSE IF events[n].type = "updatespellusable" /\ events[n].ability.guid = id
         THEN n
         ELSE lastUsableUpdate(id, n - 1)

\* A rule qualifies against the state st held before an event: no snapshot
\* for its spell or a snapshot marked available, and no condition or a
\* condition that validates on the stored condition state.
Qualifies(rule, st, event) ==
    LET id == spell(rule).id IN
    /\ id \in DOMAIN st.abilityState => st.abilityState[id].isAvailable
    /\ "condition" \in DOMAIN rule =>
           validate(rule.condition, Get(st.conditionState, rule.condition.key), event)
               = Bool(TRUE)

NoneQualifies(st, event) ==
    \A i \in DOMAIN apl.rules : ~Qualifies(apl.rules[i], st, event)

FirstQualifying(i, st, event) ==
    /\ Qualifies(apl.rules[i], st, event)
    /\ \A j \in 1..(i - 1) : ~Qualifies(apl.rules[j], st, event)

NothingRecorded ==
    result.successes = last.successes /\ result.violations = last.violations

SuccessRecorded(rule) ==
    /\ result.successes = Append(last.successes, rule)
    /\ result.violations = last.violations

ViolationRecorded(rule) ==
    /\ result.violations =
           Append(last.violations,
                  [rule |-> rule, expectedCast |-> spell(rule),
                   actualCast |-> lastEvent.ability])
    /\ result.successes = last.successes

\* The latest step classified its cast with rule.
ClassifiedWith(rule) ==
    IF spell(rule).id = lastEvent.ability.guid
    THEN SuccessRecorded(rule)
    ELSE ViolationRecorded(rule)

\* ----------------------------------------------------------------- claims

\* C1: every cast of a governed spell is classified with the first rule, in
\* declaration order, that qualifies against the state held before the
\* event; when no rule qualifies nothing is recorded.
C1_FirstQualifyingRule ==
    GovernedCast =>
        \/ \E i \in DOMAIN apl.rules :
              FirstQualifying(i, last, lastEvent) /\ ClassifiedWith(apl.rules[i])
        \/ NoneQualifies(last, lastEvent) /\ NothingRecorded

\* Rules [A, B] both qualify and B is cast: a violation expecting A.
C1_Witness ==
    /\ GovernedCast
    /\ apl.rules = <<SpellA, SpellB>>
    /\ lastEvent.ability.guid = SpellB.id
    /\ Qualifies(SpellA, last, lastEvent) /\ Qualifies(SpellB, last, lastEvent)
    /\ Len(result.violations) = Len(last.violations) + 1
    /\ result.violations[Len(result.violations)].expectedCast = SpellA

\* C2: when a qualifying rule is found for a governed cast, exactly one
\* record is appended: the rule to successes iff its spell is the spell
\* cast, else a violation to violations; never both.
C2_ExactlyOneRecord ==
    (GovernedCast /\ applicableRule(apl, last, lastEvent) # Undefined) =>
        LET rule == applicableRule(apl, last, lastEvent) IN
        /\ Len(result.successes) + Len(result.violations)
               = Len(last.successes) + Len(last.violations) + 1
        /\ spell(rule).id = lastEvent.ability.guid <=> SuccessRecorded(rule)
        /\ spell(rule).id # lastEvent.ability.guid <=> ViolationRecorded(rule)

\* A success and, in the same run, a violation have each been appended alone.
C2_Witness ==
    /\ GovernedCast
    /\ applicableRule(apl, last, lastEvent) # Undefined
    /\ Len(result.successes) = 1
    /\ Len(result.violations) = 1

\* C3: a cast whose source is not info.playerId never adds a success or a
\* violation.
C3_OnlyPlayerCasts ==
    (Stepped /\ lastEvent.type = "cast" /\ lastEvent.sourceID # playerId) =>
        NothingRecorded

\* C4: the decision for a cast reads the availability and condition state
\* left by exactly the events strictly before it; the cast's own update is
\* applied after the decision.
C4_StateBeforeUpdate ==
    GovernedCast =>
        LET before == [abilityState |-> abilityStateAfter(pos - 1),
                       conditionState |-> conditionStateAfter(pos - 1)]
            rule == applicableRule(apl, before, lastEvent)
        IN  /\ IF rule = Undefined THEN NothingRecorded ELSE ClassifiedWith(rule)
            /\ result.conditionState = conditionStateAfter(pos)
            /\ result.abilityState = abilityStateAfter(pos)

\* The first cast of B, guarded by "B was cast before": the condition is
\* false at the decision and true after the step.
C4_Witness ==
    /\ GovernedCast
    /\ apl.rules = <<ConditionalRule(SpellB, spellWasCast(SpellB)), SpellA>>
    /\ lastEvent.ability.guid = SpellB.id
    /\ last.conditionState[spellWasCast(SpellB).key] = Bool(FALSE)
    /\ result.conditionState[spellWasCast(SpellB).key] = Bool(TRUE)
    /\ ViolationRecorded(SpellA)

\* The availability state of spell id after the first n events, read off the
\* stream: unavailable when the last update for id says so, never updated
\* when the stream holds no update for id.
Unavailable(id, n) ==
    LET k == lastUsableUpdate(id, n) IN k > 0 /\ ~events[k].isAvailable

NeverUpdated(id, n) == lastUsableUpdate(id, n) = 0

\* The rule named by the record the latest step appended, if it appended one.
RecordedRule ==
    IF Len(result.successes) > Len(last.successes)
    THEN result.successes[Len(result.successes)]
    ELSE IF Len(result.violations) > Len(last.violations)
         THEN result.violations[Len(result.violations)].rule
         ELSE Undefined

\* C5: a rule whose spell's latest snapshot is marked unavailable never
\* qualifies at a decision; a spell without any availability update counts as
\* available; with the single rule A, [A becomes unavailable, cast A] records
\* nothing.
C5_AvailabilityGating ==
    GovernedCast =>
        /\ \A i \in DOMAIN apl.rules :
              LET rule == apl.rules[i] IN
              /\ Unavailable(spell(rule).id, pos - 1) =>
                     /\ ~ruleApplies(rule, last, lastEvent)
                     /\ RecordedRule # rule
              /\ NeverUpdated(spell(rule).id, pos - 1) =>
                     (ruleApplies(rule, last, lastEvent) <=>
                         ("condition" \in DOMAIN rule =>
                              Truthy(Get(last.conditionState, rule.condition.key))))
              /\ (NeverUpdated(spell(rule).id, pos - 1) /\ ~("condition" \in DOMAIN rule))
                     => RecordedRule # Undefined
        /\ ( /\ apl.rules = <<SpellA>>
             /\ pos = 2
             /\ events[1] = UpdateSpellUsableEvent(SpellA.id, FALSE) )
               => (result.successes = <<>> /\ result.violations = <<>>)

\* The single rule A, A marked unavailable, then A cast.
C5_Witness ==
    /\ GovernedCast
    /\ apl.rules = <<SpellA>>
    /\ pos = 2
    /\ events[1] = UpdateSpellUsableEvent(SpellA.id, FALSE)
    /\ lastEvent.ability.guid = SpellA.id
    /\ result.successes = <<>>

\* C6: when no rule qualifies for a governed cast, nothing is recorded and
\* the fold goes on: it is still running and has advanced both states.
C6_NoRuleSilentlyIgnored ==
    (GovernedCast /\ NoneQualifies(last, lastEvent)) =>
        /\ NothingRecorded
        /\ phase = "running"
        /\ result.conditionState = updateState(apl, last.conditionState, lastEvent)
        /\ result.abilityState = updateAbilities(last.abilityState, lastEvent)

\* A is guarded by a buff that is down and is the only rule; A is cast after
\* an earlier cast was ignored the same way.
C6_Witness ==
    /\ GovernedCast
    /\ NoneQualifies(last, lastEvent)
    /\ "condition" \in DOMAIN apl.rules[1]
    /\ pos >= 2
    /\ events[pos - 1].type = "cast"

\* C7 as stated: in every violation the expected rule stands earlier in
\* apl.rules than every rule that governs the spell actually cast.
C7_ExpectedBeforeEveryActualRule ==
    Len(apl.rules) >= 2 =>
        \A k \in DOMAIN result.violations :
            LET v == result.violations[k] IN
            \A j \in DOMAIN apl.rules :
                spell(apl.rules[j]).id = v.actualCast.guid =>
                    \E i \in 1..(j - 1) : apl.rules[i] = v.rule

\* C7 (amended): in every violation the expected rule stands earlier in
\* apl.rules than every rule that governs the spell actually cast and
\* qualifies at that decision.
C7_ExpectedBeforeQualifyingActualRule ==
    ( /\ GovernedCast
      /\ Len(apl.rules) >= 2
      /\ Len(result.violations) > Len(last.violations) ) =>
        LET v == result.violations[Len(result.violations)] IN
        \A j \in DOMAIN apl.rules :
            ( /\ spell(apl.rules[j]).id = v.actualCast.guid
              /\ Qualifies(apl.rules[j], last, lastEvent) ) =>
                \E i \in 1..(j - 1) : apl.rules[i] = v.rule

\* A violation is recorded while a rule for the spell cast qualifies too.
C7_Witness ==
    /\ GovernedCast
    /\ Len(result.violations) > Len(last.violations)
    /\ \E j \in DOMAIN apl.rules :
          /\ spell(apl.rules[j]).id = lastEvent.ability.guid
          /\ Qualifies(apl.rules[j], last, lastEvent)
          /\ "condition" \in DOMAIN apl.rules[j]

RECURSIVE resultAfter(_)
resultAfter(n) ==
    IF n = 0 THEN initialCheckState(apl)
    ELSE reducer(apl, playerId, resultAfter(n - 1), events[n])

\* C9: successes and violations only grow at the end: the lists obtained for
\* every prefix of the stream are prefixes of the lists obtained so far.
C9_AppendOnly ==
    (phase = "running") =>
        \A n \in 0..pos :
            /\ IsPrefix(resultAfter(n).successes, result.successes)
            /\ IsPrefix(resultAfter(n).violations, result.violations)

\* Two different violations were recorded one after the other.
C9_Witness ==
    /\ Stepped
    /\ Len(result.violations) >= 2
    /\ result.violations[1] # result.violations[2]
    /\ Len(last.violations) = 1

\* The buffPresent conditions the state machine is examined on.
BuffConditions ==
    {buffPresent(SpellX, 1), buffPresent(SpellX, 2), buffPresent(SpellY, 1)}

\* The state of condition cnd threaded through the first n events.
RECURSIVE conditionValueAfter(_, _)
conditionValueAfter(cnd, n) ==
    IF n = 0 THEN init(cnd)
    ELSE update(cnd, conditionValueAfter(cnd, n - 1), events[n])

\* Index of the last apply-buff or remove-buff event for spell id among the
\* first n events, 0 when there is none.
RECURSIVE lastBuffChange(_, _)
lastBuffChange(id, n) ==
    IF n = 0 THEN 0
    ELSE IF events[n].type \in {"applybuff", "removebuff"} /\ events[n].ability.guid = id
         THEN n
         ELSE lastBuffChange(id, n - 1)

BuffIsUp(id, n) ==
    LET k == lastBuffChange(id, n) IN k > 0 /\ events[k].type = "applybuff"

\* The conditions of apl.conditions that are buffPresent conditions and the
\* only condition registered under their key.
RegisteredBuffConditions ==
    IF "conditions" \in DOMAIN apl
    THEN {apl.conditions[i] : i \in
             {i \in DOMAIN apl.conditions :
                 /\ apl.conditions[i].kind = "buffPresent"
                 /\ \A j \in DOMAIN apl.conditions :
                        apl.conditions[j].key = apl.conditions[i].key => j = i}}
    ELSE {}

SpellIds == {SpellA.id, SpellB.id, SpellX.id, SpellY.id}

\* C11: the stored availability snapshot of every spell id is the last
\* availability update for that id in the stream, and absent iff the stream
\* holds none; an update for one id leaves the snapshots of the others alone.
C11_LatestSnapshotWins ==
    /\ \A id \in SpellIds :
          LET k == lastUsableUpdate(id, pos) IN
          IF k = 0
          THEN ~(id \in DOMAIN result.abilityState)
          ELSE id \in DOMAIN result.abilityState /\ result.abilityState[id] = events[k]
    /\ (Stepped /\ lastEvent.type = "updatespellusable") =>
           \A id \in SpellIds \ {lastEvent.ability.guid} :
               Get(result.abilityState, id) = Get(last.abilityState, id)

\* A snapshot of A was overwritten by a later, different one while B kept
\* its own.
C11_Witness ==
    /\ Stepped
    /\ pos = 3
    /\ lastEvent.type = "updatespellusable"
    /\ lastEvent.ability.guid = SpellA.id
    /\ SpellA.id \in DOMAIN last.abilityState
    /\ last.abilityState[SpellA.id] # lastEvent
    /\ result.abilityState[SpellA.id] = lastEvent
    /\ SpellB.id \in DOMAIN result.abilityState

\* C12: every event, whatever became of its classification, advances the
\* condition state and the availability state once; an event that is not an
\* availability update leaves the availability state as it was, and an event
\* that is not a cast of a governed spell leaves both lists as they were.
C12_StateAdvancesUnconditionally ==
    Stepped =>
        /\ result.conditionState = updateState(apl, last.conditionState, lastEvent)
        /\ result.abilityState = updateAbilities(last.abilityState, lastEvent)
        /\ result.conditionState = conditionStateAfter(pos)
        /\ result.abilityState = abilityStateAfter(pos)
        /\ lastEvent.type # "updatespellusable" =>
               result.abilityState = last.abilityState
        /\ ~GovernedCast => NothingRecorded

\* A governed cast was silently ignored and still changed the condition state.
C12_Witness ==
    /\ GovernedCast
    /\ NothingRecorded
    /\ result.conditionState # last.conditionState
    /\ result.abilityState = last.abilityState

\* apl.conditions, the empty list when the member is absent.
registered == IF "conditions" \in DOMAIN apl THEN apl.conditions ELSE <<>>

\* Condition i is the last one declared under its key.
LastUnderKey(i) ==
    \A j \in DOMAIN registered : registered[j].key = registered[i].key => j <= i

\* C13 as stated: the mapping has exactly the registered keys, each
\* initialised by init(), and after each event every registered condition's
\* value is its update applied to its own value from before the event.
C13_EveryConditionUpdated ==
    /\ DOMAIN result.conditionState = {registered[i].key : i \in DOMAIN registered}
    /\ pos = 0 =>
           \A i \in DOMAIN registered :
               result.conditionState[registered[i].key] = init(registered[i])
    /\ Stepped =>
           \A i \in DOMAIN registered :
               result.conditionState[registered[i].key]
                   = update(registered[i],
                            Get(last.conditionState, registered[i].key), lastEvent)

\* C13 (amended): the same for every registered condition that is the last
\* one declared under its key, which is every condition when keys are unique.
C13_LastDeclaredConditionUpdated ==
    /\ DOMAIN result.conditionState = {registered[i].key : i \in DOMAIN registered}
    /\ pos = 0 =>
           \A i \in DOMAIN registered :
               LastUnderKey(i) =>
                   result.conditionState[registered[i].key] = init(registered[i])
    /\ Stepped =>
           \A i \in DOMAIN registered :
               LastUnderKey(i) =>
                   result.conditionState[registered[i].key]
                       = update(registered[i],
                                Get(last.conditionState, registered[i].key), lastEvent)

\* Two conditions with keys of their own are registered and an event has
\* changed the value of both.
C13_Witness ==
    /\ Stepped
    /\ Len(registered) = 2
    /\ registered[1].key # registered[2].key
    /\ \A i \in DOMAIN registered :
          /\ last.conditionState[registered[i].key] = init(registered[i])
          /\ result.conditionState[registered[i].key] # init(registered[i])

\* The rules of apl.rules whose condition's key is not registered.
UnregisteredRules ==
    {i \in DOMAIN apl.rules :
        /\ "condition" \in DOMAIN apl.rules[i]
        /\ \A j \in DOMAIN registered :
               registered[j].key # apl.rules[i].condition.key}

\* C14: for a rule whose condition's key is not registered, the state handed
\* to validate is the absent value at every decision; the fold goes on, and a
\* buffPresent rule of that kind never qualifies, not even after a matching
\* apply-buff event.
C14_UnregisteredConditionAbsent ==
    \A i \in UnregisteredRules :
        LET rule == apl.rules[i] IN
        /\ Get(result.conditionState, rule.condition.key) = Undefined
        /\ GovernedCast =>
               /\ Get(last.conditionState, rule.condition.key) = Undefined
               /\ phase = "running"
               /\ rule.condition.kind = "buffPresent" =>
                      /\ ~ruleApplies(rule, last, lastEvent)
                      /\ RecordedRule # rule

\* The buff was applied, then A, guarded by the unregistered buffPresent
\* condition, was cast, and nothing was recorded.
C14_Witness ==
    /\ GovernedCast
    /\ UnregisteredRules = {1}
    /\ pos = 2
    /\ events[1] = BuffEvent("applybuff", apl.rules[1].condition.spell.id, 1)
    /\ lastEvent.ability.guid = spell(apl.rules[1]).id
    /\ NothingRecorded

\* The pairs (earlier, later) of registered conditions that share a key, the
\* later one being the last declared under it.
CollidingPairs ==
    {p \in (DOMAIN registered) \X (DOMAIN registered) :
        /\ p[1] < p[2]
        /\ registered[p[1]].key = registered[p[2]].key
        /\ LastUnderKey(p[2])}

\* C15: when two registered conditions share a key, one value is stored
\* under it: the later condition's init() at the start, then the later
\* condition's update of the stored value; rules guarded by either condition
\* validate against that value, and the fold goes on.
C15_LaterConditionOverwrites ==
    \A p \in CollidingPairs :
        LET later == registered[p[2]]
            key == later.key
        IN  /\ key \in DOMAIN result.conditionState
            /\ pos = 0 => result.conditionState[key] = init(later)
            /\ Stepped =>
                   /\ result.conditionState[key]
                          = update(later, last.conditionState[key], lastEvent)
                   /\ phase = "running"
            /\ GovernedCast =>
                   \A i \in DOMAIN apl.rules :
                       LET rule == apl.rules[i] IN
                       ("condition" \in DOMAIN rule /\ rule.condition.key = key) =>
                           (ruleApplies(rule, last, lastEvent) <=>
                               /\ ~Unavailable(spell(rule).id, pos - 1)
                               /\ last.conditionState[key] = Bool(TRUE))

\* buffPresent(X, 1) and a condition set by casts of B share a key: the
\* apply-buff of X is lost, the cast of B sets the shared value, and A,
\* guarded by buffPresent, then counts as a success.
C15_Witness ==
    /\ GovernedCast
    /\ CollidingPairs # {}
    /\ pos = 3
    /\ events[1] = BuffEvent("applybuff", SpellX.id, 1)
    /\ events[2] = CastEvent(SpellB.id, 1)
    /\ events[3] = CastEvent(SpellA.id, 1)
    /\ last.conditionState[buffPresent(SpellX, 1).key] = Bool(TRUE)
    /\ result.successes = <<ConditionalRule(SpellA, buffPresent(SpellX, 1))>>
    /\ result.violations = <<>>

\* C16: the value a call returns holds exactly successes and violations; the
\* availability state and the condition state of the accumulator are not
\* part of it.
C16_ReturnedShape ==
    \A k \in DOMAIN returned : DOMAIN returned[k] = {"successes", "violations"}

\* The number of casts of governed spells among the events processed so far.
GovernedCastsProcessed ==
    Cardinality({n \in 1..pos :
        /\ events[n].type = "cast"
        /\ \E i \in DOMAIN apl.rules :
               spell(apl.rules[i]).id = events[n].ability.guid})

RecordCount(st) == Len(st.successes) + Len(st.violations)

\* C17: the number of successes plus the number of violations is at most the
\* number of casts of governed spells processed so far, and each event adds
\* 0 or 1 to it.
C17_RecordsBoundedByGovernedCasts ==
    /\ RecordCount(result) <= GovernedCastsProcessed
    /\ Stepped => RecordCount(result) - RecordCount(last) \in {0, 1}

\* A governed cast was recorded after an earlier one had been dropped.
C17_Witness ==
    /\ Stepped
    /\ RecordCount(result) = RecordCount(last) + 1
    /\ RecordCount(result) < GovernedCastsProcessed

RuleSet == {apl.rules[i] : i \in DOMAIN apl.rules}

\* C18: every success is a rule of apl.rules; every violation names a rule of
\* apl.rules, expects that rule's spell, records a cast of a governed spell,
\* and the expected spell is not the spell cast.
C18_RecordsWellFormed ==
    /\ \A k \in DOMAIN result.successes : result.successes[k] \in RuleSet
    /\ \A k \in DOMAIN result.violations :
          LET v == result.violations[k] IN
          /\ DOMAIN v = {"rule", "expectedCast", "actualCast"}
          /\ v.rule \in RuleSet
          /\ v.expectedCast = spell(v.rule)
          /\ \E r \in RuleSet : spell(r).id = v.actualCast.guid
          /\ v.expectedCast.id # v.actualCast.guid

\* A run that holds a success and two violations.
C18_Witness ==
    /\ Len(result.successes) = 1
    /\ Len(result.violations) = 2
    /\ phase = "done"

\* Some rule for a spell other than the one cast qualifies at the decision.
OtherSpellQualifies ==
    \E i \in DOMAIN apl.rules :
        /\ spell(apl.rules[i]).id # lastEvent.ability.guid
        /\ Qualifies(apl.rules[i], last, lastEvent)

\* C19: a cast of a spell whose latest snapshot is marked unavailable is
\* never a success; it is a violation when a rule for another spell
\* qualifies at that moment and is dropped otherwise.
C19_UnavailableCastNeverSuccess ==
    (GovernedCast /\ Unavailable(lastEvent.ability.guid, pos - 1)) =>
        /\ result.successes = last.successes
        /\ IF OtherSpellQualifies
           THEN /\ Len(result.violations) = Len(last.violations) + 1
                /\ LET v == result.violations[Len(result.violations)] IN
                   /\ v.actualCast = lastEvent.ability
                   /\ v.expectedCast.id # lastEvent.ability.guid
                /\ IsPrefix(last.violations, result.violations)
           ELSE NothingRecorded

\* After two availability updates A is marked unavailable and is cast while
\* a rule for B qualifies: a violation and no success.
C19_Witness ==
    /\ GovernedCast
    /\ Unavailable(lastEvent.ability.guid, pos - 1)
    /\ OtherSpellQualifies
    /\ Len(result.violations) = 1
    /\ result.successes = <<>>
    /\ pos = 3
    /\ events[1].type = "updatespellusable"
    /\ events[2].type = "updatespellusable"

\* C20: the target of buffPresent(spell, target) only enters the key: two
\* buffPresent conditions for one spell and different targets have different
\* keys and equal state after any events, and an apply-buff or remove-buff of
\* the spell on any target sets both registered ones.
C20_TargetOnlyInKey ==
    /\ \A sp \in {SpellX, SpellY} : \A t1 \in Actors : \A t2 \in Actors \ {t1} :
          /\ buffPresent(sp, t1).key # buffPresent(sp, t2).key
          /\ conditionValueAfter(buffPresent(sp, t1), pos)
                 = conditionValueAfter(buffPresent(sp, t2), pos)
    /\ \A c1 \in RegisteredBuffConditions : \A c2 \in RegisteredBuffConditions :
          c1.spell = c2.spell =>
              /\ result.conditionState[c1.key] = result.conditionState[c2.key]
              /\ ( /\ Stepped
                   /\ lastEvent.type \in {"applybuff", "removebuff"}
                   /\ lastEvent.ability.guid = c1.spell.id )
                     => result.conditionState[c1.key]
                            = Bool(lastEvent.type = "applybuff")

\* Conditions for targets 1 and 2 are registered and an apply-buff on target
\* 2 has set both.
C20_Witness ==
    /\ Stepped
    /\ {buffPresent(SpellX, 1), buffPresent(SpellX, 2)} \subseteq RegisteredBuffConditions
    /\ lastEvent = BuffEvent("applybuff", SpellX.id, 2)
    /\ last.conditionState[buffPresent(SpellX, 1).key] = Bool(FALSE)
    /\ last.conditionState[buffPresent(SpellX, 2).key] = Bool(FALSE)
    /\ result.conditionState[buffPresent(SpellX, 1).key] = Bool(TRUE)
    /\ result.conditionState[buffPresent(SpellX, 2).key] = Bool(TRUE)

====
